---- MODULE Spec2Model ----
(***************************************************************************)
(* The PackageOrderSystem component of src/src/App.js as a state machine.  *)
(*                                                                         *)
(* State: the five useState cells (items, selectedItems, packages,         *)
(* loading, error), the fetches that are in flight, and a record of the    *)
(* last handler that ran.  One action per handler or continuation: the     *)
(* mount effect, fetchItems up to its first await, fetchItems after its    *)
(* awaits, toggleItemSelection, handlePlaceOrder up to its first await,    *)
(* handlePlaceOrder after its awaits.                                      *)
(*                                                                         *)
(* JavaScript runs each handler and each continuation to completion, so    *)
(* each is one atomic step.  No state is written between `await fetch`     *)
(* and `await response.json()`, so the two awaits are one suspension.      *)
(*                                                                         *)
(* Spec takes the handlers as operations: once the mount effect has run,   *)
(* toggleItemSelection and handlePlaceOrder may be invoked at any time     *)
(* and with any identifier, whatever the rendered controls allow.          *)
(* fetchItems has one caller, the mount effect, which runs once.           *)
(***************************************************************************)
EXTENDS Integers, Sequences, FiniteSets, TLC

VARIABLES
    items,          \* useState([])        : sequence of Item
    selectedItems,  \* useState(new Set()) : a JS Set, kept in insertion order
    packages,       \* useState(null)      : Null or a sequence of Package
    loading,        \* useState(false)
    error,          \* useState(null)      : Null or a message
    catalogReqs,    \* GET /products fetches in flight (their number)
    calcReqs,       \* POST /orders/calculate fetches in flight
    nLoads,         \* fetchItems calls so far
    nCalc,          \* calculate requests sent so far
    lastOp          \* the handler or continuation that ran last, and its input

vars == << items, selectedItems, packages, loading, error,
           catalogReqs, calcReqs, nLoads, nCalc, lastOp >>

----------------------------------------------------------------------------
(* Bounds of the model *)

MaxId == 1          \* Spec: the identifiers toggled are 1..MaxId
MaxCalc == 2        \* Spec: calculate requests sent in one run
MaxSnapId == 3      \* SpecSnapshot: the identifiers toggled are 1..MaxSnapId
MaxSnapCalc == 1    \* SpecSnapshot: calculate requests sent in one run

ItemIds == 1..MaxId
SnapIds == 1..MaxSnapId

----------------------------------------------------------------------------
(* JavaScript values *)

Null == "<null>"
Undefined == "<undefined>"

\* The values `a || b` treats as false, among those an error text can take.
Falsy == {Null, Undefined, ""}

\* a || b
OrElse(a, b) == IF a \in Falsy THEN b ELSE a

\* The messages the component sets
LoadErrorMsg == "Failed to load items"
ValidationMsg == "Please select at least one item"
OrderErrorMsg == "Failed to process order"

\* packages is null or an array: null is <<>>, the array a is <<a>>.
NullPackages == << >>
Held(a) == << a >>

----------------------------------------------------------------------------
(* The JS Set behind selectedItems: membership is unique and iteration is  *)
(* in insertion order, so the set is the sequence of its members in the    *)
(* order they were added.                                                  *)

Range(s) == { s[i] : i \in 1..Len(s) }

SetHas(s, x) == x \in Range(s)

SetAdd(s, x) == IF SetHas(s, x) THEN s ELSE Append(s, x)

SetDelete(s, x) == SelectSeq(s, LAMBDA y : y # x)

SetSize(s) == Len(s)

\* The members sorted ascending, as a snapshot that sorts would give them.
ArrayFromSorted(s) == SortSeq(s, LAMBDA a, b : a < b)

\* Array.from(set): the members in iteration order.
ArrayFrom(s) == s

\* An updater that only ever adds.
ToggleUpdaterAddsOnly(prev, itemId) == SetAdd(prev, itemId)

\* The updater toggleItemSelection hands to setSelectedItems.
ToggleUpdater(prev, itemId) ==
    IF SetHas(prev, itemId) THEN SetDelete(prev, itemId) ELSE SetAdd(prev, itemId)

----------------------------------------------------------------------------
(* What the two services can answer.  `threw` is a rejected fetch or a     *)
(* rejected response.json(): the catch branch runs.  Otherwise the body    *)
(* parsed and `success` is the truth of data.success.                      *)

Item(i) == [id |-> i]

Catalogs == { << Item(1) >>, << Item(1), Item(2) >> }

CatalogResponses ==
    { [threw |-> TRUE,  success |-> FALSE, data |-> << >>] } \cup
    { [threw |-> FALSE, success |-> FALSE, data |-> << >>] } \cup
    { [threw |-> FALSE, success |-> TRUE,  data |-> c] : c \in Catalogs }

Package(cents) == [courierPrice |-> cents]

PackageLists == { << Package(500) >>, << Package(500), Package(750) >> }

\* error texts a handled failure can carry: none, an empty one, a real one
ServerErrors == { Undefined, "", "no courier available" }

\* what a rejected fetch carries
Cause == "TypeError: Failed to fetch"

CalcResponses ==
    { [threw |-> TRUE, success |-> FALSE, packages |-> << >>,
       error |-> Cause] } \cup
    { [threw |-> FALSE, success |-> FALSE, packages |-> << >>,
       error |-> e] : e \in ServerErrors } \cup
    { [threw |-> FALSE, success |-> TRUE, packages |-> p,
       error |-> Undefined] : p \in PackageLists }

\* A request in flight: the n-th sent, its body, and how many were in flight
\* when it was sent.
NoReq == [id |-> 0, itemIds |-> << >>, concurrent |-> 0]

----------------------------------------------------------------------------
(* Construction: the useState initial values; nothing is in flight.        *)

Init ==
    /\ items = << >>
    /\ selectedItems = << >>
    /\ packages = NullPackages
    /\ loading = FALSE
    /\ error = Null
    /\ catalogReqs = 0
    /\ calcReqs = {}
    /\ nLoads = 0
    /\ nCalc = 0
    /\ lastOp = [op |-> "init", id |-> 0, req |-> NoReq, resp |-> Null,
                 preError |-> Null, prePackages |-> NullPackages]

\* What lastOp records of a handler run: which handler, the identifier it
\* was given, the request it sent or resumed, the answer it resumed with,
\* and the error and packages held when it started.
Ran(op, id, req, resp) ==
    [op |-> op, id |-> id, req |-> req, resp |-> resp,
     preError |-> error, prePackages |-> packages]

\* The effect of the first commit has run: handlers are attached and the
\* first fetchItems call has been made.
Mounted == nLoads >= 1

----------------------------------------------------------------------------
(* fetchItems, up to `await fetch`: setLoading(true) and the request.      *)

FetchItemsStart ==
    /\ loading' = TRUE
    /\ catalogReqs' = catalogReqs + 1
    /\ nLoads' = nLoads + 1
    /\ lastOp' = Ran("fetchItems", 0, NoReq, Null)
    /\ UNCHANGED << items, selectedItems, packages, error, calcReqs, nCalc >>

\* useEffect(() => { fetchItems(); }, []): once, after the first commit.
UseEffect ==
    /\ nLoads = 0
    /\ FetchItemsStart

\* The item list fetchItems leaves, given the answer.
ItemsAfterFetch(resp) ==
    IF ~resp.threw /\ resp.success THEN resp.data ELSE items

\* The error fetchItems leaves, given the answer.
ErrorAfterFetch(resp) ==
    IF resp.threw THEN LoadErrorMsg ELSE Null

\* A finally that keeps loading set while a calculate request is in flight.
FetchItemsDoneOwnStatus(resp) ==
    /\ catalogReqs > 0
    /\ catalogReqs' = catalogReqs - 1
    /\ items' = ItemsAfterFetch(resp)
    /\ error' = ErrorAfterFetch(resp)
    /\ loading' = (calcReqs # {})
    /\ lastOp' = Ran("fetchItemsDone", 0, NoReq, resp)
    /\ UNCHANGED << selectedItems, packages, calcReqs, nLoads, nCalc >>

\* fetchItems, after its awaits: try body, catch, finally.
FetchItemsDone(resp) ==
    /\ catalogReqs > 0
    /\ catalogReqs' = catalogReqs - 1
    /\ items' = ItemsAfterFetch(resp)
    /\ error' = ErrorAfterFetch(resp)
    /\ loading' = FALSE
    /\ lastOp' = Ran("fetchItemsDone", 0, NoReq, resp)
    /\ UNCHANGED << selectedItems, packages, calcReqs, nLoads, nCalc >>

----------------------------------------------------------------------------
(* toggleItemSelection(itemId) *)

\* A request body that is the live Set: a toggle shows in every body in flight.
ToggleItemSelectionAliased(itemId) ==
    /\ Mounted
    /\ selectedItems' = ToggleUpdater(selectedItems, itemId)
    /\ calcReqs' = { [req EXCEPT !.itemIds = ArrayFrom(selectedItems')] :
                        req \in calcReqs }
    /\ lastOp' = Ran("toggle", itemId, NoReq, Null)
    /\ UNCHANGED << items, packages, loading, error, catalogReqs,
                    nLoads, nCalc >>

ToggleItemSelection(itemId) ==
    /\ Mounted
    /\ selectedItems' = ToggleUpdater(selectedItems, itemId)
    /\ lastOp' = Ran("toggle", itemId, NoReq, Null)
    /\ UNCHANGED << items, packages, loading, error, catalogReqs, calcReqs,
                    nLoads, nCalc >>

----------------------------------------------------------------------------
(* handlePlaceOrder, up to `await fetch` *)

\* The body of the POST: { itemIds: Array.from(selectedItems) }
OrderItems == ArrayFrom(selectedItems)

\* The packages a submission holds right after it was sent.
PackagesOnSubmit == packages

\* The validation gate left out: every submission goes to the network.
EmptySelectionNeverChecked == FALSE

\* if (selectedItems.size === 0)
EmptySelection == SetSize(selectedItems) = 0

HandlePlaceOrder ==
    /\ Mounted
    /\ IF EmptySelection
       THEN /\ error' = ValidationMsg
            /\ lastOp' = Ran("handlePlaceOrder", 0, NoReq, Null)
            /\ UNCHANGED << items, selectedItems, packages, loading,
                            catalogReqs, calcReqs, nLoads, nCalc >>
       ELSE /\ nCalc < MaxCalc
            /\ loading' = TRUE
            /\ error' = Null
            /\ packages' = PackagesOnSubmit
            /\ nCalc' = nCalc + 1
            /\ LET req == [id |-> nCalc + 1, itemIds |-> OrderItems,
                           concurrent |-> Cardinality(calcReqs)]
               IN  /\ calcReqs' = calcReqs \cup {req}
                   /\ lastOp' = Ran("handlePlaceOrder", 0, req, Null)
            /\ UNCHANGED << items, selectedItems, catalogReqs, nLoads >>

----------------------------------------------------------------------------
(* handlePlaceOrder, after its awaits: try body, catch, finally.           *)

\* A success appended to the result already held instead of replacing it.
PackagesAfterOrderMerged(resp) ==
    IF ~resp.threw /\ resp.success
    THEN IF packages = NullPackages THEN Held(resp.packages)
         ELSE Held(packages[1] \o resp.packages)
    ELSE packages

\* The packages held after the answer is processed.
PackagesAfterOrder(resp) ==
    IF ~resp.threw /\ resp.success THEN Held(resp.packages) ELSE packages

\* A success that also clears the error cell.
ErrorAfterOrderClearedOnSuccess(resp) ==
    IF resp.threw THEN OrderErrorMsg
    ELSE IF resp.success THEN Null
    ELSE OrElse(resp.error, OrderErrorMsg)

\* The catch branch showing the caught error instead of the fixed message.
ErrorAfterOrderShowsCause(resp) ==
    IF resp.threw THEN resp.error
    ELSE IF resp.success THEN error
    ELSE OrElse(resp.error, OrderErrorMsg)

\* The error held after the answer is processed.
ErrorAfterOrder(resp) ==
    IF resp.threw THEN OrderErrorMsg
    ELSE IF resp.success THEN error
    ELSE OrElse(resp.error, OrderErrorMsg)

\* A thrown fetch answered by sending the request again.
HandlePlaceOrderDoneRetries(req, resp) ==
    /\ req \in calcReqs
    /\ IF resp.threw /\ nCalc < MaxCalc
       THEN /\ calcReqs' = (calcReqs \ {req}) \cup {[req EXCEPT !.id = nCalc + 1]}
            /\ nCalc' = nCalc + 1
       ELSE /\ calcReqs' = calcReqs \ {req}
            /\ nCalc' = nCalc
    /\ packages' = PackagesAfterOrder(resp)
    /\ error' = ErrorAfterOrder(resp)
    /\ loading' = FALSE
    /\ lastOp' = Ran("handlePlaceOrderDone", 0, req, resp)
    /\ UNCHANGED << items, selectedItems, catalogReqs, nLoads >>

\* A success that also empties the selection.
HandlePlaceOrderDoneClearsSelection(req, resp) ==
    /\ req \in calcReqs
    /\ calcReqs' = calcReqs \ {req}
    /\ packages' = PackagesAfterOrder(resp)
    /\ error' = ErrorAfterOrder(resp)
    /\ loading' = FALSE
    /\ selectedItems' = IF ~resp.threw /\ resp.success THEN << >>
                        ELSE selectedItems
    /\ lastOp' = Ran("handlePlaceOrderDone", 0, req, resp)
    /\ UNCHANGED << items, catalogReqs, nLoads, nCalc >>

\* setLoading(false) on the success path only, not in a finally.
HandlePlaceOrderDoneNoFinally(req, resp) ==
    /\ req \in calcReqs
    /\ calcReqs' = calcReqs \ {req}
    /\ packages' = PackagesAfterOrder(resp)
    /\ error' = ErrorAfterOrder(resp)
    /\ loading' = IF ~resp.threw /\ resp.success THEN FALSE ELSE loading
    /\ lastOp' = Ran("handlePlaceOrderDone", 0, req, resp)
    /\ UNCHANGED << items, selectedItems, catalogReqs, nLoads, nCalc >>

HandlePlaceOrderDone(req, resp) ==
    /\ req \in calcReqs
    /\ calcReqs' = calcReqs \ {req}
    /\ packages' = PackagesAfterOrder(resp)
    /\ error' = ErrorAfterOrder(resp)
    /\ loading' = FALSE
    /\ lastOp' = Ran("handlePlaceOrderDone", 0, req, resp)
    /\ UNCHANGED << items, selectedItems, catalogReqs, nLoads, nCalc >>

----------------------------------------------------------------------------
(* renderPackages: what it derives from the held package list.  Amounts    *)
(* are in cents: Number(pkg.courierPrice) of an amount with at most two    *)
(* decimals, and sums of such, are within a rounding error that            *)
(* toFixed(2) removes.                                                     *)

\* packages.length
PackageCount(pkgs) == Len(pkgs)

\* the reduce callback applied from element i on, with accumulator sum
RECURSIVE ReduceFrom(_, _, _)
ReduceFrom(pkgs, i, sum) ==
    IF i > Len(pkgs) THEN sum
    ELSE ReduceFrom(pkgs, i + 1, sum + pkgs[i].courierPrice)

\* A reduce that starts from the first element without adding it.
TotalCourierChargesNoInitial(pkgs) == ReduceFrom(pkgs, 2, 0)

\* packages.reduce((sum, pkg) => sum + Number(pkg.courierPrice), 0)
TotalCourierCharges(pkgs) == ReduceFrom(pkgs, 1, 0)

\* amount.toFixed(2), of an amount given in cents
ToFixed2(cents) ==
    ToString(cents \div 100) \o "." \o
    (IF cents % 100 < 10 THEN "0" ELSE "") \o ToString(cents % 100)

----------------------------------------------------------------------------

Next ==
    \/ UseEffect
    \/ \E resp \in CatalogResponses : FetchItemsDone(resp)
    \/ \E itemId \in ItemIds : ToggleItemSelection(itemId)
    \/ HandlePlaceOrder
    \/ \E req \in calcReqs : \E resp \in CalcResponses :
          HandlePlaceOrderDone(req, resp)

Spec == Init /\ [][Next]_vars

(* Spec with fair delivery: the catalog fetch and every calculate request  *)
(* in flight are answered (or fail) in the end.                            *)
SpecFair ==
    /\ Spec
    /\ WF_vars(\E resp \in CatalogResponses : FetchItemsDone(resp))
    /\ \A n \in 1..MaxCalc :
          WF_vars(\E req \in calcReqs : \E resp \in CalcResponses :
                     req.id = n /\ HandlePlaceOrderDone(req, resp))

----------------------------------------------------------------------------
(* The rendered controls *)

\* Checkboxes that toggle the (zero-based) index of the item, not its id.
RenderedIndexes == { i - 1 : i \in 1..Len(items) }

\* items.map(item => ... toggleItemSelection(item.id)): one checkbox per item
RenderedIds == { items[i].id : i \in 1..Len(items) }

\* A button disabled on an empty selection only.
PlaceOrderDisabledIgnoresLoading == SetSize(selectedItems) = 0

\* disabled={loading || selectedItems.size === 0}
PlaceOrderDisabled == loading \/ SetSize(selectedItems) = 0

(* The component driven through its controls alone: a toggle needs the     *)
(* checkbox of a rendered item, a submission an enabled Place Order button.*)
NextUI ==
    \/ UseEffect
    \/ \E resp \in CatalogResponses : FetchItemsDone(resp)
    \/ \E itemId \in RenderedIds : ToggleItemSelection(itemId)
    \/ ~PlaceOrderDisabled /\ HandlePlaceOrder
    \/ \E req \in calcReqs : \E resp \in CalcResponses :
          HandlePlaceOrderDone(req, resp)

SpecUI == Init /\ [][NextUI]_vars

----------------------------------------------------------------------------
(* Toggles and submissions alone, over more identifiers: what a submission *)
(* sends, whatever the services answer later.                              *)
NextSnapshot ==
    \/ UseEffect
    \/ \E itemId \in SnapIds : ToggleItemSelection(itemId)
    \/ nCalc < MaxSnapCalc /\ HandlePlaceOrder

SpecSnapshot == Init /\ [][NextSnapshot]_vars

----------------------------------------------------------------------------
(* Vocabulary of the claims *)

\* the step that led here ran handlePlaceOrder on an empty selection
RanEmptySubmit == lastOp.op = "handlePlaceOrder" /\ lastOp.req = NoReq

\* the step that led here ran handlePlaceOrder and sent a request
RanSubmit == lastOp.op = "handlePlaceOrder" /\ lastOp.req # NoReq

\* the step that led here processed the answer of a catalog fetch
RanFetchDone == lastOp.op = "fetchItemsDone"

\* the step that led here processed the answer of a calculate request
RanOrderDone == lastOp.op = "handlePlaceOrderDone"

\* the answer processed last was a success / a handled or thrown failure
AnswerOk == ~lastOp.resp.threw /\ lastOp.resp.success
AnswerFailed == lastOp.resp.threw \/ ~lastOp.resp.success

\* an error text the server really supplied: present and not empty
Supplied(e) == e # Undefined /\ e # ""

\* the messages a failed calculate request can leave
OrderFailureMsgs == {OrderErrorMsg} \cup { e \in ServerErrors : Supplied(e) }

\* the messages a submission can leave
SubmissionMsgs == {ValidationMsg} \cup OrderFailureMsgs

IsAscending(s) == \A i, j \in 1..Len(s) : i < j => s[i] < s[j]

----------------------------------------------------------------------------
(* C1.  Invoking handlePlaceOrder while the selection is empty sends no    *)
(* request (the number of calculate requests ever sent and the requests in *)
(* flight are unchanged) and leaves the validation message as the error.   *)

C1_EmptySubmitNoRequest ==
    [][ (lastOp'.op = "handlePlaceOrder" /\ SetSize(selectedItems) = 0)
          => /\ nCalc' = nCalc
             /\ calcReqs' = calcReqs
             /\ error' = ValidationMsg ]_vars

\* an empty submission made while an earlier request is still in flight
C1_Witness ==
    /\ RanEmptySubmit
    /\ SetSize(selectedItems) = 0
    /\ error = ValidationMsg
    /\ calcReqs # {}

----------------------------------------------------------------------------
(* C2.  As claimed: the identifier list of every calculate request is in   *)
(* ascending order, whatever order the identifiers were toggled in.        *)

C2_SnapshotAscending ==
    \A req \in calcReqs : IsAscending(req.itemIds)

(* C2, amended.  The identifier list of a calculate request is the         *)
(* selection in insertion order: a toggle that adds an identifier puts it  *)
(* last, a toggle that removes one keeps the order of the others, and the  *)
(* request carries the selection in exactly that order.  Toggling 3, 1, 2  *)
(* on an empty selection and submitting sends [3, 1, 2].                   *)

C2_SnapshotInsertionOrder ==
    [][ /\ (lastOp'.op = "toggle" /\ lastOp'.id \notin Range(selectedItems))
            => selectedItems' = selectedItems \o << lastOp'.id >>
        /\ (lastOp'.op = "toggle" /\ lastOp'.id \in Range(selectedItems))
            => selectedItems' =
                 SelectSeq(selectedItems, LAMBDA y : y # lastOp'.id)
        /\ (lastOp'.op = "handlePlaceOrder" /\ selectedItems # << >>)
            => /\ lastOp'.req \in calcReqs'
               /\ lastOp'.req.itemIds = selectedItems ]_vars

\* the request sent after toggling 3, then 1, then 2
C2_Witness ==
    /\ RanSubmit
    /\ lastOp.req.itemIds = << 3, 1, 2 >>
    /\ lastOp.req \in calcReqs

----------------------------------------------------------------------------
(* C3.  As claimed: when the catalog fetch completes with a body whose     *)
(* success indicator is false, the error shown is the load message, as it  *)
(* is when the fetch throws.                                               *)

C3_UnsuccessfulCatalogShowsError ==
    (RanFetchDone /\ (lastOp.resp.threw \/ ~lastOp.resp.success))
        => error = LoadErrorMsg

----------------------------------------------------------------------------
(* C4.  As claimed: an error set by a failed catalog load is still held    *)
(* after any later submit action or calculate response, and an error set   *)
(* by a submission is still held after any later catalog-load completion.  *)

C4_ErrorsDoNotClearEachOther ==
    /\ (lastOp.preError = LoadErrorMsg
          /\ lastOp.op \in {"handlePlaceOrder", "handlePlaceOrderDone"})
        => error = LoadErrorMsg
    /\ (lastOp.preError \in SubmissionMsgs /\ RanFetchDone)
        => error = lastOp.preError

(* C4, amended.  The two kinds of error share the one error cell and do    *)
(* replace each other.  A held catalog-load error survives a successful    *)
(* calculate response only: a submission replaces it (by null, or by the   *)
(* validation message on an empty selection) and a failed calculate        *)
(* response replaces it by its own message.  A held submission error is    *)
(* replaced by every catalog-load completion (by null, or by the load      *)
(* message when the fetch throws).                                         *)

C4_ErrorCellShared ==
    /\ (lastOp.preError = LoadErrorMsg /\ lastOp.op = "handlePlaceOrder")
        => error = IF lastOp.req = NoReq THEN ValidationMsg ELSE Null
    /\ (lastOp.preError = LoadErrorMsg /\ RanOrderDone)
        => IF AnswerOk THEN error = LoadErrorMsg
           ELSE error \in OrderFailureMsgs
    /\ (lastOp.preError \in SubmissionMsgs /\ RanFetchDone)
        => error = IF lastOp.resp.threw THEN LoadErrorMsg ELSE Null

\* a catalog-load error that a successful calculate response left in place
C4_Witness ==
    /\ RanOrderDone
    /\ AnswerOk
    /\ lastOp.preError = LoadErrorMsg
    /\ error = LoadErrorMsg

----------------------------------------------------------------------------
(* C5.  As claimed: when a failed calculate answer (success false, or a    *)
(* thrown fetch) is processed while an earlier result is held, the failure *)
(* replaces the result: an error is held and no package list is.           *)

C5_FailureReplacesResult ==
    (RanOrderDone /\ AnswerFailed /\ lastOp.prePackages # NullPackages)
        => /\ error \in OrderFailureMsgs
           /\ packages = NullPackages

----------------------------------------------------------------------------
(* C6.  As claimed: right after a submission with a non-empty selection    *)
(* the component is loading and holds neither the earlier package list nor *)
(* the earlier error, whether or not an earlier request is in flight.      *)

C6_SubmitStartsFresh ==
    RanSubmit
        => /\ loading
           /\ error = Null
           /\ packages = NullPackages

----------------------------------------------------------------------------
(* C7.  As claimed: when two submissions overlapped and both answers have  *)
(* been processed, the order state is the one the last answer determines   *)
(* and nothing of the earlier answer remains: after a success the result   *)
(* is that answer's packages and no order error is held; after a failure   *)
(* the error is that answer's message and no result is held.               *)

\* exactly two requests were sent, the second while the first was in
\* flight, and the step that led here processed the later answer
BothRacedAnswersProcessed ==
    /\ RanOrderDone
    /\ nCalc = 2
    /\ calcReqs = {}
    /\ (lastOp.req.id = 1 \/ lastOp.req.concurrent = 1)

C7_LastAnswerWins ==
    BothRacedAnswersProcessed
        => IF AnswerOk
           THEN /\ packages = Held(lastOp.resp.packages)
                /\ error \notin OrderFailureMsgs
           ELSE /\ error \in OrderFailureMsgs
                /\ packages = NullPackages

----------------------------------------------------------------------------
(* C8.  As claimed: a catalog fetch that succeeds replaces the item list   *)
(* by the returned one and clears the error; one that fails (success       *)
(* false, or a thrown fetch) leaves the item list as it was and sets an    *)
(* error message.                                                          *)

C8_CatalogLoadOutcome ==
    [][ lastOp'.op = "fetchItemsDone"
          => IF ~lastOp'.resp.threw /\ lastOp'.resp.success
             THEN items' = lastOp'.resp.data /\ error' = Null
             ELSE items' = items /\ error' # Null ]_vars

----------------------------------------------------------------------------
(* C9.  When a calculate answer with success true is processed, loading    *)
(* ends and the package list held is exactly the one of that answer: it    *)
(* replaces the list held before and is never merged with it.              *)

C9_SuccessReplacesResult ==
    (RanOrderDone /\ AnswerOk)
        => /\ packages = Held(lastOp.resp.packages)
           /\ loading = FALSE

\* a success processed while a different result was held
C9_Witness ==
    /\ RanOrderDone
    /\ AnswerOk
    /\ lastOp.prePackages # NullPackages
    /\ lastOp.prePackages # packages

----------------------------------------------------------------------------
(* C10.  Every answer of a calculate request that is not a success ends    *)
(* loading with an error: for success false, the text the server supplied  *)
(* or, when it supplied none, the default message; for a thrown fetch or   *)
(* parse, the fixed message and never the caught error.                    *)

C10_FailureMessage ==
    (RanOrderDone /\ AnswerFailed)
        => /\ loading = FALSE
           /\ IF lastOp.resp.threw
              THEN error = "Failed to process order" /\ error # lastOp.resp.error
              ELSE IF Supplied(lastOp.resp.error)
                   THEN error = lastOp.resp.error
                   ELSE error = "Failed to process order"

\* a handled failure without an error text, shown as the default message
C10_Witness ==
    /\ RanOrderDone
    /\ ~lastOp.resp.threw
    /\ ~lastOp.resp.success
    /\ lastOp.resp.error = Undefined
    /\ error = OrderErrorMsg

----------------------------------------------------------------------------
(* C11.  Each handlePlaceOrder call on a non-empty selection sends exactly *)
(* one calculate request, and no other step sends one: the count of        *)
(* requests sent grows by one with each such call and never otherwise, and *)
(* an answer, failed or not, only takes its request out of flight.         *)

C11_OneRequestPerSubmit ==
    [][ /\ (lastOp'.op = "handlePlaceOrder" /\ selectedItems # << >>)
            => /\ nCalc' = nCalc + 1
               /\ lastOp'.req \notin calcReqs
               /\ calcReqs' = calcReqs \cup {lastOp'.req}
        /\ ~(lastOp'.op = "handlePlaceOrder" /\ selectedItems # << >>)
            => /\ nCalc' = nCalc
               /\ calcReqs' \subseteq calcReqs ]_vars

\* a thrown fetch was processed and nothing was sent again
C11_Witness ==
    /\ RanOrderDone
    /\ lastOp.resp.threw
    /\ nCalc = 1
    /\ calcReqs = {}

----------------------------------------------------------------------------
(* C12.  Toggle is an involution on membership: for every selection and    *)
(* every identifier, toggled before or not, one toggle changes the         *)
(* membership of that identifier and of no other, and a second toggle of   *)
(* the same identifier gives back the members the selection had.           *)

\* the identifiers toggled, and one that never is
AnyIds == 1..(MaxSnapId + 1)

C12_ToggleInvolution ==
    \A x \in AnyIds :
        LET once == ToggleUpdater(selectedItems, x)
            twice == ToggleUpdater(once, x)
        IN  /\ Range(twice) = Range(selectedItems)
            /\ Len(twice) = Cardinality(Range(twice))
            /\ (x \in Range(once)) = (x \notin Range(selectedItems))
            /\ Range(once) \ {x} = Range(selectedItems) \ {x}
            /\ Len(once) = Cardinality(Range(once))

\* a toggle that removed an identifier toggled in earlier, others staying
C12_Witness ==
    /\ lastOp.op = "toggle"
    /\ lastOp.id \notin Range(selectedItems)
    /\ Len(selectedItems) = 2

----------------------------------------------------------------------------
(* C13.  Only toggleItemSelection changes the selection: the start and the *)
(* completion of the catalog load, a submission (empty or not) and the     *)
(* processing of any calculate answer leave it as it was.                  *)

C13_OnlyToggleChangesSelection ==
    [][ lastOp'.op # "toggle" => selectedItems' = selectedItems ]_vars

\* a second submission of the selection that the first, answered with
\* success, left in place
C13_Witness ==
    /\ RanSubmit
    /\ lastOp.req.id = 2
    /\ lastOp.req.concurrent = 0
    /\ packages # NullPackages
    /\ lastOp.req.itemIds = selectedItems

----------------------------------------------------------------------------
(* C14.  For the held package list the total courier charge is the sum of  *)
(* the courier prices of all its packages, the same for every permutation  *)
(* of the packages, and the package count is the length of the list:       *)
(* courier prices 5.00 and 7.50 give 2 packages and a total of "12.50".    *)

RECURSIVE SumOfCourierPrices(_)
SumOfCourierPrices(pkgs) ==
    IF pkgs = << >> THEN 0
    ELSE pkgs[Len(pkgs)].courierPrice
           + SumOfCourierPrices(SubSeq(pkgs, 1, Len(pkgs) - 1))

Permuted(pkgs, f) == [i \in 1..Len(pkgs) |-> pkgs[f[i]]]

C14_TotalIsSumOfCourierPrices ==
    packages # NullPackages
        => LET pkgs == packages[1]
           IN  /\ PackageCount(pkgs) = Cardinality(DOMAIN pkgs)
               /\ \A f \in Permutations(1..Len(pkgs)) :
                     TotalCourierCharges(Permuted(pkgs, f))
                        = SumOfCourierPrices(pkgs)
               /\ (pkgs = << Package(500), Package(750) >>
                     => /\ PackageCount(pkgs) = 2
                        /\ ToFixed2(TotalCourierCharges(pkgs)) = "12.50")

\* the result with courier prices 5.00 and 7.50 is held
C14_Witness ==
    /\ packages = Held(<< Package(500), Package(750) >>)
    /\ ToFixed2(TotalCourierCharges(packages[1])) = "12.50"

----------------------------------------------------------------------------
(* C15.  No error is fatal: in the state an error leaves (the catalog      *)
(* fetch threw, a calculate request failed, or an empty selection was      *)
(* submitted) every toggle can be made, and when the selection is not      *)
(* empty the Place Order button is enabled and a submission can be made    *)
(* that sends a request.                                                   *)

ErrorJustProcessed ==
    \/ RanFetchDone /\ lastOp.resp.threw
    \/ RanOrderDone /\ AnswerFailed
    \/ RanEmptySubmit

C15_NoErrorIsFatal ==
    ErrorJustProcessed
        => /\ \A x \in ItemIds : ENABLED ToggleItemSelection(x)
           /\ (selectedItems # << >> /\ nCalc < MaxCalc)
                => /\ ~PlaceOrderDisabled
                   /\ ENABLED (HandlePlaceOrder /\ nCalc' = nCalc + 1)

\* a failed calculate request, the selection still in place to submit again
C15_Witness ==
    /\ RanOrderDone
    /\ AnswerFailed
    /\ error \in OrderFailureMsgs
    /\ selectedItems # << >>
    /\ nCalc < MaxCalc
    /\ ~PlaceOrderDisabled

----------------------------------------------------------------------------
(* C16.  As claimed: the catalog load and the order submission each have   *)
(* their own status: the start or completion of a catalog load does not    *)
(* take the submission out of Loading while a calculate request is in      *)
(* flight, and the start or completion of a submission does not take the   *)
(* catalog load out of Loading while its fetch is in flight.               *)

C16_StatusesIndependent ==
    /\ (lastOp.op \in {"fetchItems", "fetchItemsDone"} /\ calcReqs # {})
        => loading
    /\ (lastOp.op \in {"handlePlaceOrder", "handlePlaceOrderDone"}
          /\ catalogReqs > 0)
        => loading

(* C16, amended.  The catalog load and the order submission share the one  *)
(* loading flag: the start of either sets it and the completion of either  *)
(* clears it, also while a request of the other kind is still in flight.   *)

C16_LoadingFlagShared ==
    /\ (lastOp.op = "fetchItems" \/ RanSubmit) => loading
    /\ (RanFetchDone \/ RanOrderDone) => ~loading

\* the catalog load completed while a calculate request was in flight
C16_Witness ==
    /\ RanFetchDone
    /\ calcReqs # {}
    /\ ~loading

----------------------------------------------------------------------------
(* C17.  When toggles come from the rendered item list alone, every        *)
(* identifier in the selection is the id of an item of the catalog held,   *)
(* the last one fetched.                                                   *)

C17_SelectionWithinCatalog ==
    \A x \in Range(selectedItems) : \E i \in DOMAIN items : items[i].id = x

\* every item of a two-item catalog selected, and an order answered
C17_Witness ==
    /\ Len(items) = 2
    /\ Len(selectedItems) = 2
    /\ RanOrderDone

----------------------------------------------------------------------------
(* C18.  A calculate request carries the selection as it was when the      *)
(* submission was made: a toggle made while requests are in flight changes *)
(* the selection but no request in flight and not the packages held, and   *)
(* the answer of a request installs the packages of that answer whatever   *)
(* the selection has become.                                               *)

C18_RequestCarriesSnapshot ==
    [][ /\ (lastOp'.op = "handlePlaceOrder" /\ selectedItems # << >>)
            => lastOp'.req.itemIds = selectedItems
        /\ lastOp'.op = "toggle"
            => /\ selectedItems' # selectedItems
               /\ calcReqs' = calcReqs
               /\ packages' = packages
        /\ lastOp'.op = "handlePlaceOrderDone"
            => /\ lastOp'.req \in calcReqs
               /\ (~lastOp'.resp.threw /\ lastOp'.resp.success)
                    => packages' = Held(lastOp'.resp.packages) ]_vars

\* an answer installed for a request whose body is no longer the selection
C18_Witness ==
    /\ RanOrderDone
    /\ AnswerOk
    /\ lastOp.req.itemIds # selectedItems
    /\ packages = Held(lastOp.resp.packages)

----------------------------------------------------------------------------
(* C19.  As claimed, the part a finite run decides: as long as a calculate *)
(* request has not completed the component stays in Loading.               *)

C19_UnansweredRequestKeepsLoading ==
    calcReqs # {} => loading

(* C19, amended.  The step that processes the answer or the failure of a   *)
(* submission leaves loading false, with the packages of a success held or *)
(* the message of a failure shown; under fair delivery every request in    *)
(* flight is processed in the end.  There is no timeout and no             *)
(* cancellation: loading goes from true to false only in a step that       *)
(* completes a catalog fetch or a calculate request.  A request that never *)
(* completes therefore keeps loading true only until some other request    *)
(* completes.                                                              *)

InFlight(n) == \E req \in calcReqs : req.id = n

C19_LoadingEndsOnlyByCompletion ==
    /\ [](RanOrderDone
            => /\ ~loading
               /\ (AnswerOk => packages = Held(lastOp.resp.packages))
               /\ (AnswerFailed => error \in OrderFailureMsgs))
    /\ \A n \in 1..MaxCalc : InFlight(n) ~> ~InFlight(n)
    /\ [][ (loading /\ ~loading')
             => lastOp'.op \in {"fetchItemsDone", "handlePlaceOrderDone"} ]_vars

\* loading cleared by the answer of one request while another is in flight
C19_Witness ==
    /\ RanOrderDone
    /\ calcReqs # {}
    /\ ~loading

----------------------------------------------------------------------------
(* C20.  When submissions come from the Place Order button alone, at most  *)
(* one calculate request is in flight, and loading is true whenever the    *)
(* catalog fetch or a calculate request is in flight.                      *)

C20_ButtonSerialisesRequests ==
    /\ Cardinality(calcReqs) <= 1
    /\ (catalogReqs > 0 \/ calcReqs # {}) => loading

\* the second submission, made after the first was answered
C20_Witness ==
    /\ RanSubmit
    /\ lastOp.req.id = 2
    /\ calcReqs = {lastOp.req}
    /\ loading

====
